---------------------------- MODULE Spec2Model ----------------------------
(***************************************************************************)
(* A model of jalil-salame/sudoku-solver: the puzzle representation of     *)
(* src/src/solver.rs (Sudoku, SudokuCell, SudokuValue, SudokuValues, the   *)
(* row / column / box iterators, from_line and the Debug encoding) and the *)
(* iterative depth-first search IterativeDFS::try_solve.                   *)
(*                                                                         *)
(* A run parses one input line, hands the grid to try_solve and follows    *)
(* the search pop by pop until it returns Ok, returns the exhaustion error *)
(* or panics.  A cell is a number: 0 is SudokuCell(None), 1..9 is a filled *)
(* cell.  A position is the pair <<x, y>> (column, row) of [usize; 2].     *)
(***************************************************************************)
EXTENDS Integers, Sequences, FiniteSets

VARIABLES
    line,         \* the input line handed to Sudoku::from_line (bytes)
    pc,           \* control point: "parse", "parsed", "main", "backtrack", "done"
    sudoku,       \* the grid try_solve owns and mutates
    empty_cells,  \* the frontier: Vec<[usize; 2]>, popped from the back
    state,        \* the trail: Vec<([usize; 2], SudokuValues)>
    result,       \* what the run ended with, and the grid it carries
    cli           \* the command-line program of main.rs: arguments, build
                  \* profile, bytes read, tokens left to parse, exit code

vars == <<line, pc, sudoku, empty_cells, state, result, cli>>

---------------------------------------------------------------------------
(* Bounds of the model and constants of the program.                       *)

\* How many puzzle tokens the bytes read by the command-line program hold.
MaxTokens == 2

\* ExitCode::SUCCESS, ExitCode::FAILURE and the status of a process whose
\* main thread panicked.
ExitSuccess == 0

ExitFailure == 1

ExitPanic == 101

\* How many of HoleList's positions an input may have punched out.
MaxHoles == 5

\* How many of HoleList's positions an input of FairSpec may have punched
\* out.
MaxLiveHoles == 2

\* How many of OverwriteList's overwrites an input may choose from.
MaxOverwrites == 6

\* The side of the grid, [[SudokuCell; 9]; 9].
N == 9

\* The side of a box.
BoxSide == 3

\* The length from_line asserts.
LineLen == 81

\* b'.' and b'0'.
Dot == 46

Zero == 48

Coords == 0 .. (N - 1)

---------------------------------------------------------------------------
(* SudokuValue, SudokuValues, SudokuCell.                                  *)

\* SudokuValue::new: Some(val) for 1..=9, None (0 here) otherwise.
SudokuValueNew(val) == IF val \in 1 .. 9 THEN val ELSE 0

\* SudokuValues::next on the cursor c: None (0) at c >= 9, else c + 1.
SudokuValuesNext(c) == IF c >= 9 THEN 0 ELSE c + 1

\* Variant of find that takes the next value without asking whether the
\* set holds it.
SudokuValuesFindAny(c, all) == SudokuValuesNext(c)

\* Iterator::find on SudokuValues(c): next() until a value outside `all`;
\* 0 when the iterator ends first.
RECURSIVE SudokuValuesFind(_, _)
SudokuValuesFind(c, all) ==
    LET v == SudokuValuesNext(c)
    IN  IF v = 0 THEN 0
        ELSE IF v \notin all THEN v
        ELSE SudokuValuesFind(v, all)

\* SudokuValue::all_values(): SudokuValues(0).
AllValues == 0

\* Variant of the cursor of a value that stands one before it.
IntoIterBefore(val) == val - 1

\* IntoIterator for SudokuValue: SudokuValues(val).
IntoIter(val) == val

\* Variant of from_ascci_char that takes every byte that is no digit 1..9
\* for an empty cell.
FromAscciCharLenient(val) ==
    IF val \in (Zero + 1) .. (Zero + 9) THEN val - Zero ELSE 0

\* SudokuCell::from_ascci_char: Some(empty) for '.', Some(filled) for a
\* digit 1..9 after the wrapping subtraction of b'0', None (-1) otherwise.
FromAscciChar(val) ==
    IF val = Dot THEN 0
    ELSE LET v == SudokuValueNew((val - Zero) % 256)
         IN  IF v = 0 THEN -1 ELSE v

\* Display for SudokuCell, non-alternate: the digit, or '.'.
DisplayCell(c) == IF c # 0 THEN Zero + c ELSE Dot

---------------------------------------------------------------------------
(* Sudoku: indexing, traversal, filled / valid / solved.                   *)

EmptyGrid == [y \in Coords |-> [x \in Coords |-> 0]]

\* Index<Ix> for Sudoku: &self.0[y][x].
Index(g, ix) == g[ix[2]][ix[1]]

\* Variant of IndexMut with the two coordinates swapped: &mut self.0[x][y].
IndexMutT(g, ix, c) == [g EXCEPT ![ix[1]][ix[2]] = c]

\* IndexMut<Ix> for Sudoku, followed by the assignment of c.
IndexMut(g, ix, c) == [g EXCEPT ![ix[2]][ix[1]] = c]

\* Iterator for Row: the positions next() visits from Row { x, y } on,
\* until it returns None at x >= 9.
RECURSIVE RowCollect(_, _)
RowCollect(x, y) ==
    IF x >= N THEN <<>> ELSE << <<x, y>> >> \o RowCollect(x + 1, y)

\* Iterator for Column: the positions next() visits from Column { x, y }
\* on, until it returns None at y >= 9.
RECURSIVE ColumnCollect(_, _)
ColumnCollect(x, y) ==
    IF y >= N THEN <<>> ELSE << <<x, y>> >> \o ColumnCollect(x, y + 1)

\* Variant of the box iterator that takes pos / 3 for the box column and
\* pos % 3 for the box row.
RECURSIVE CellCollectT(_, _)
CellCollectT(pos, ix) ==
    IF ix >= N THEN <<>>
    ELSE << <<BoxSide * (pos \div BoxSide) + (ix % BoxSide),
              BoxSide * (pos % BoxSide) + (ix \div BoxSide)>> >>
         \o CellCollectT(pos, ix + 1)

\* Iterator for Cell: the positions next() visits from Cell { pos, ix } on,
\* until it returns None at ix >= 9.
RECURSIVE CellCollect(_, _)
CellCollect(pos, ix) ==
    IF ix >= N THEN <<>>
    ELSE << <<BoxSide * (pos % BoxSide) + (ix % BoxSide),
              BoxSide * (pos \div BoxSide) + (ix \div BoxSide)>> >>
         \o CellCollect(pos, ix + 1)

RowPositions == [ix \in Coords |-> RowCollect(0, ix)]

ColumnPositions == [ix \in Coords |-> ColumnCollect(ix, 0)]

CellPositions == [ix \in Coords |-> CellCollect(ix, 0)]

\* The positions Row { x: 0, y: ix } visits.
RowIx(ix) == RowPositions[ix]

\* The positions Column { x: ix, y: 0 } visits.
ColumnIx(ix) == ColumnPositions[ix]

\* The positions Cell { pos: ix, ix: 0 } visits.
CellIx(ix) == CellPositions[ix]

\* Sudoku::row, Sudoku::column, Sudoku::cell: the cells the iterator yields.
Row(g, ix) == [k \in 1 .. Len(RowIx(ix)) |-> Index(g, RowIx(ix)[k])]

Column(g, ix) == [k \in 1 .. Len(ColumnIx(ix)) |-> Index(g, ColumnIx(ix)[k])]

Cell(g, ix) == [k \in 1 .. Len(CellIx(ix)) |-> Index(g, CellIx(ix)[k])]

RowFromIx(ix) == ix[2]

ColumnFromIx(ix) == ix[1]

\* Variant of cell_from_ix with the row and the column of the box swapped.
CellFromIxT(ix) == BoxSide * (ix[1] \div BoxSide) + (ix[2] \div BoxSide)

CellFromIx(ix) == BoxSide * (ix[2] \div BoxSide) + (ix[1] \div BoxSide)

IsFilledCell(c) == c # 0

\* Variant of unique that compares the empty cells as well.
UniqueWithEmpty(values) ==
    ~ \E i \in 1 .. Len(values) : \E j \in (i + 1) .. Len(values) : values[j] = values[i]

\* unique: no value of a filled cell occurs again later in the sequence.
Unique(values) ==
    LET vals == SelectSeq(values, IsFilledCell)
    IN  ~ \E i \in 1 .. Len(vals) : \E j \in (i + 1) .. Len(vals) : vals[j] = vals[i]

\* Variant of indexed_values that numbers the positions column by column.
IndexedValuesT(g) ==
    [i \in 1 .. (N * N) |->
        <<<<(i - 1) \div N, (i - 1) % N>>, g[(i - 1) \div N][(i - 1) % N]>>]

\* Sudoku::values: the cells in row-major order.
Values(g) == [i \in 1 .. (N * N) |-> g[(i - 1) \div N][(i - 1) % N]]

\* Sudoku::indexed_values: ([ix % 9, ix / 9], cell) over the flattened rows.
IndexedValues(g) ==
    [i \in 1 .. (N * N) |-> <<<<(i - 1) % N, (i - 1) \div N>>, Values(g)[i]>>]

Filled(g) == \A i \in 1 .. (N * N) : IsFilledCell(Values(g)[i])

Valid(g) ==
    \A ix \in Coords :
        Unique(Row(g, ix)) /\ Unique(Column(g, ix)) /\ Unique(Cell(g, ix))

\* Variant of solved() that leaves out valid().
SolvedUnchecked(g) == Filled(g)

\* Sudoku::solved.
Solved(g) == Filled(g) /\ Valid(g)

\* TryFrom<Sudoku> for SolvedSudoku: the values when solved(), else Err(()).
\* The argument of then_some is built before solved() is looked at, so the
\* expect inside it panics as soon as one cell is empty.
TryFromSudoku(g) == [panic |-> ~ Filled(g), ok |-> Solved(g), values |-> g]

---------------------------------------------------------------------------
(* Parsing and encoding.                                                   *)

\* Sudoku::from_line: the length assertion, then one cell per byte, row by
\* row; a byte from_ascci_char rejects panics.
FromLine(l) ==
    IF Len(l) # LineLen
        THEN [panic |-> TRUE, grid |-> EmptyGrid]
    ELSE IF \E i \in 1 .. LineLen : FromAscciChar(l[i]) = -1
        THEN [panic |-> TRUE, grid |-> EmptyGrid]
    ELSE [panic |-> FALSE,
          grid |-> [y \in Coords |-> [x \in Coords |-> FromAscciChar(l[y * N + x + 1])]]]

\* Variant of the encoding that prints self[(y, x)]: column by column.
DebugFmtT(g) ==
    [i \in 1 .. (N * N) |-> DisplayCell(Index(g, <<(i - 1) \div N, (i - 1) % N>>))]

\* Debug for Sudoku, non-alternate: self[(x, y)] printed for y = 0..8 and,
\* within each y, x = 0..8.
DebugFmt(g) ==
    [i \in 1 .. (N * N) |-> DisplayCell(Index(g, <<(i - 1) % N, (i - 1) \div N>>))]

---------------------------------------------------------------------------
(* The inputs of the model.                                                *)

\* The solution of the repository's TEST_SUDOKU, as digits.
BaseDigits ==
    << 6,9,3, 7,8,4, 5,1,2,
       4,8,7, 5,1,2, 9,3,6,
       1,2,5, 9,6,3, 8,7,4,
       9,3,2, 6,5,1, 4,8,7,
       5,6,8, 2,4,7, 3,9,1,
       7,4,1, 3,9,8, 6,2,5,
       3,1,9, 4,7,5, 2,6,8,
       8,5,6, 1,2,9, 7,4,3,
       2,7,4, 8,3,6, 1,5,9 >>

BaseLine == [i \in 1 .. LineLen |-> Zero + BaseDigits[i]]

\* Hole patterns (sets of offsets row * 9 + column) an input starts from:
\* none, the two lower right boxes, the last row and most of the one above.
PatternList ==
    << {},
       { r * N + c : r \in 6 .. 8, c \in 3 .. 8 },
       (66 .. 71) \cup (72 .. 80) >>

\* Offsets that may be punched out besides, in the order the bound admits
\* them.
HoleList == << 58, 60, 67, 69, 49, 51, 59, 77, 61, 79, 68, 76 >>

\* <<offset, byte>> overwrites by another digit, in the order the bound
\* admits them.
OverwriteList ==
    << <<0, 57>>, <<77, 57>>, <<67, 51>>, <<57, 55>>, <<49, 50>>, <<58, 50>>,
       <<61, 53>>, <<75, 49>>, <<80, 51>> >>

\* Bytes outside the alphabet: '0', '/', ':', NUL, 0xff, ' '.
BadBytes == { 48, 47, 58, 0, 255, 32 }

Prefix(list, n) == { list[k] : k \in 1 .. (IF n < Len(list) THEN n ELSE Len(list)) }

Holes == Prefix(HoleList, MaxHoles)

Overwrites == Prefix(OverwriteList, MaxOverwrites)

\* BaseLine with the offsets of H punched out and then the overwrites of O
\* applied.
MakeLine(H, O) ==
    [i \in 1 .. LineLen |->
        IF \E o \in O : o[1] = i - 1
            THEN (CHOOSE o \in O : o[1] = i - 1)[2]
        ELSE IF (i - 1) \in H THEN Dot
        ELSE BaseLine[i]]

Patterns == { PatternList[k] : k \in 1 .. Len(PatternList) }

InputLines ==
    { MakeLine(P \cup H, {}) : P \in Patterns, H \in SUBSET Holes }
    \cup { MakeLine(P \cup H, {o}) : <<P, H>> \in Patterns \X SUBSET Holes, o \in Overwrites }
    \cup { MakeLine(P, {<<p, b>>}) : <<P, p>> \in Patterns \X {0, 40, 80}, b \in BadBytes }
    \cup { SubSeq(BaseLine, 1, LineLen - 1), Append(BaseLine, Dot), <<>> }

---------------------------------------------------------------------------
(* IterativeDFS::try_solve.                                                *)

\* Variant of all_affecting that leaves out the box.
AllAffectingRowColumn(g, ix) ==
    LET row == Row(g, RowFromIx(ix))
        column == Column(g, ColumnFromIx(ix))
    IN  { row[k] : k \in { j \in 1 .. N : IsFilledCell(row[j]) } }
        \cup { column[k] : k \in { j \in 1 .. N : IsFilledCell(column[j]) } }

\* all_affecting: the values of the filled cells of the row, the column
\* and the box of ix.
AllAffecting(g, ix) ==
    LET row == Row(g, RowFromIx(ix))
        column == Column(g, ColumnFromIx(ix))
        cell == Cell(g, CellFromIx(ix))
    IN  { row[k] : k \in { j \in 1 .. N : IsFilledCell(row[j]) } }
        \cup { column[k] : k \in { j \in 1 .. N : IsFilledCell(column[j]) } }
        \cup { cell[k] : k \in { j \in 1 .. N : IsFilledCell(cell[j]) } }

IsEmptyEntry(e) == e[2] = 0

IsFilledEntry(e) == e[2] # 0

\* Variant of the initial frontier that keeps the filled cells instead.
EmptyCellsFilled(g) ==
    LET sel == SelectSeq(IndexedValues(g), IsFilledEntry)
    IN  [k \in 1 .. Len(sel) |-> sel[k][1]]

\* Variant of the initial frontier in the opposite order, the position
\* discovered first on top.
EmptyCellsReversed(g) ==
    LET sel == SelectSeq(IndexedValues(g), IsEmptyEntry)
    IN  [k \in 1 .. Len(sel) |-> sel[Len(sel) + 1 - k][1]]

\* The initial frontier: the positions of the empty cells in the order
\* indexed_values yields them.
EmptyCells(g) ==
    LET sel == SelectSeq(IndexedValues(g), IsEmptyEntry)
    IN  [k \in 1 .. Len(sel) |-> sel[k][1]]

Last(s) == s[Len(s)]

Pop(s) == SubSeq(s, 1, Len(s) - 1)

NoResult == [tag |-> "none", grid |-> EmptyGrid]

\* The command-line program is not part of a library run.
NoCli ==
    [args |-> <<>>, build |-> "none", contents |-> <<>>, todo |-> <<>>,
     sudokus |-> <<>>, exit |-> -1]

Init ==
    /\ line \in InputLines
    /\ pc = "parse"
    /\ sudoku = EmptyGrid
    /\ empty_cells = <<>>
    /\ state = <<>>
    /\ result = NoResult
    /\ cli = NoCli

\* Sudoku::from_line returns the grid.
Parse ==
    /\ pc = "parse"
    /\ ~ FromLine(line).panic
    /\ sudoku' = FromLine(line).grid
    /\ pc' = "parsed"
    /\ UNCHANGED <<cli, line, empty_cells, state, result>>

\* Sudoku::from_line panics: the length assertion or a bad byte.
ParsePanic ==
    /\ pc = "parse"
    /\ FromLine(line).panic
    /\ pc' = "done"
    /\ result' = [tag |-> "parse_panic", grid |-> EmptyGrid]
    /\ UNCHANGED <<cli, line, sudoku, empty_cells, state>>

\* try_solve up to the main loop: collect the empty cells, an empty trail.
Begin ==
    /\ pc = "parsed"
    /\ empty_cells' = EmptyCells(sudoku)
    /\ state' = <<>>
    /\ pc' = "main"
    /\ UNCHANGED <<cli, line, sudoku, result>>

\* Variant of FirstValue that takes the last free value, not the first.
FirstValueMax(all) ==
    LET S == { v \in 1 .. 9 : v \notin all }
    IN  IF S = {} THEN 0 ELSE CHOOSE v \in S : \A w \in S : w <= v

\* The value a fresh frontier position gets: the first of all_values()
\* outside `all`.
FirstValue(all) == SudokuValuesFind(AllValues, all)

\* Variant of the backtracking search for a value that starts at the value
\* tried last instead of after it.
NextValueSame(values, all) == SudokuValuesFind(values - 1, all)

\* Variant of NextValue that starts over from all_values().
NextValueRestart(values, all) == SudokuValuesFind(AllValues, all)

\* Variant of NextValue that skips the value after the cursor.
NextValueSkip(values, all) == SudokuValuesFind(values + 1, all)

\* The value a trail position gets next: the first the saved iterator
\* yields outside `all`.
NextValue(values, all) == SudokuValuesFind(values, all)

\* Variant of Cleared that leaves the cell as it is.
ClearedKeep(g, ix) == g

\* The cell of a popped trail entry is set to empty.
Cleared(g, ix) == IndexMut(g, ix, 0)

\* Main loop, a frontier position with a free value: fill it, push it on
\* the trail, back to the top.
FrontierFill ==
    /\ pc = "main"
    /\ empty_cells # <<>>
    /\ LET ix == Last(empty_cells)
           val == FirstValue(AllAffecting(sudoku, ix))
       IN  /\ val # 0
           /\ state' = Append(state, <<ix, IntoIter(val)>>)
           /\ sudoku' = IndexMut(sudoku, ix, val)
           /\ empty_cells' = Pop(empty_cells)
    /\ pc' = "main"
    /\ UNCHANGED <<cli, line, result>>

\* Main loop, a frontier position without a free value: set it to empty,
\* push it back, fall through to the backtracking loop.
FrontierStuck ==
    /\ pc = "main"
    /\ empty_cells # <<>>
    /\ LET ix == Last(empty_cells)
           val == FirstValue(AllAffecting(sudoku, ix))
       IN  /\ val = 0
           /\ sudoku' = IndexMut(sudoku, ix, 0)
           /\ empty_cells' = Append(Pop(empty_cells), ix)
    /\ pc' = "backtrack"
    /\ UNCHANGED <<cli, line, state, result>>

\* Main loop, the frontier is empty: Ok(SolvedSudoku::try_from(sudoku)
\* .expect(..)), which panics when the conversion fails.
FrontierEmpty ==
    /\ pc = "main"
    /\ empty_cells = <<>>
    /\ LET r == TryFromSudoku(sudoku)
       IN  result' = IF r.panic THEN [tag |-> "try_from_panic", grid |-> EmptyGrid]
                     ELSE IF r.ok THEN [tag |-> "Ok", grid |-> r.values]
                     ELSE [tag |-> "expect_panic", grid |-> EmptyGrid]
    /\ pc' = "done"
    /\ UNCHANGED <<cli, line, sudoku, empty_cells, state>>

\* Variant of the refill that goes on with the backtracking loop instead
\* of continuing the main loop.
TrailRefillContinue ==
    /\ pc = "backtrack"
    /\ state # <<>>
    /\ LET ix == Last(state)[1]
           values == Last(state)[2]
           g == Cleared(sudoku, ix)
           val == NextValue(values, AllAffecting(g, ix))
       IN  /\ val # 0
           /\ state' = Append(Pop(state), <<ix, IntoIter(val)>>)
           /\ sudoku' = IndexMut(g, ix, val)
    /\ pc' = "backtrack"
    /\ UNCHANGED <<cli, line, empty_cells, result>>

\* Variant of the exhausted entry that does not push the position back on
\* the frontier.
TrailExhaustedDrop ==
    /\ pc = "backtrack"
    /\ state # <<>>
    /\ LET ix == Last(state)[1]
           values == Last(state)[2]
           g == Cleared(sudoku, ix)
           val == NextValue(values, AllAffecting(g, ix))
       IN  /\ val = 0
           /\ state' = Pop(state)
           /\ sudoku' = Cleared(g, ix)
    /\ pc' = "backtrack"
    /\ UNCHANGED <<cli, line, empty_cells, result>>

\* Backtracking loop, the popped trail entry has another value: refill,
\* push the entry back, continue the main loop.
TrailRefill ==
    /\ pc = "backtrack"
    /\ state # <<>>
    /\ LET ix == Last(state)[1]
           values == Last(state)[2]
           g == Cleared(sudoku, ix)
           val == NextValue(values, AllAffecting(g, ix))
       IN  /\ val # 0
           /\ state' = Append(Pop(state), <<ix, IntoIter(val)>>)
           /\ sudoku' = IndexMut(g, ix, val)
    /\ pc' = "main"
    /\ UNCHANGED <<cli, line, empty_cells, result>>

\* Backtracking loop, the popped trail entry is exhausted: leave the cell
\* empty, push the position on the frontier, pop the next entry.
TrailExhausted ==
    /\ pc = "backtrack"
    /\ state # <<>>
    /\ LET ix == Last(state)[1]
           values == Last(state)[2]
           g == Cleared(sudoku, ix)
           val == NextValue(values, AllAffecting(g, ix))
       IN  /\ val = 0
           /\ state' = Pop(state)
           /\ sudoku' = Cleared(g, ix)
           /\ empty_cells' = Append(empty_cells, ix)
    /\ pc' = "backtrack"
    /\ UNCHANGED <<cli, line, result>>

\* Backtracking loop, the trail is empty: Err(ExhaustedAllPossibilities).
ReturnExhausted ==
    /\ pc = "backtrack"
    /\ state = <<>>
    /\ result' = [tag |-> "Err", grid |-> sudoku]
    /\ pc' = "done"
    /\ UNCHANGED <<cli, line, sudoku, empty_cells, state>>

Next ==
    \/ Parse
    \/ ParsePanic
    \/ Begin
    \/ FrontierFill
    \/ FrontierStuck
    \/ FrontierEmpty
    \/ TrailRefill
    \/ TrailExhausted
    \/ ReturnExhausted

Spec == Init /\ [][Next]_vars

\* The inputs of the runs followed to their end: every pattern, with the
\* first holes and every overwrite, and a line from_line rejects per bad
\* byte.
LiveLines ==
    { MakeLine(P \cup H, {}) : P \in Patterns, H \in SUBSET Prefix(HoleList, MaxLiveHoles) }
    \cup { MakeLine(P \cup H, {o}) :
              <<P, H>> \in Patterns \X SUBSET Prefix(HoleList, MaxLiveHoles), o \in Overwrites }
    \cup { MakeLine({}, {<<0, b>>}) : b \in BadBytes }

LiveInit == Init /\ line \in LiveLines

\* try_solve is one uninterrupted loop: a step that can be taken is taken.
FairSpec == LiveInit /\ [][Next]_vars /\ WF_vars(Next)


---------------------------------------------------------------------------
(* A caller of the library's conversions: from_line, then                  *)
(* SolvedSudoku::try_from, then writes through IndexMut for SolvedSudoku    *)
(* and the conversion back with From<SolvedSudoku> for Sudoku.             *)

\* How many cyclic relabellings of the digits the caller's lines come in.
MaxRelabel == 2

\* The line l with every digit d replaced by the digit k places after it.
Relabel(l, k) ==
    [i \in 1 .. Len(l) |->
        IF l[i] \in (Zero + 1) .. (Zero + N)
            THEN Zero + 1 + ((l[i] - Zero - 1 + k) % N)
            ELSE l[i]]

ApiLines == { Relabel(l, k) : l \in InputLines, k \in 0 .. MaxRelabel }

\* Where and what the caller writes into a SolvedSudoku.
WritePositions == { <<0, 0>>, <<8, 8>>, <<4, 0>> }

WriteValues == { 1, 5, 9 }

ApiInit ==
    /\ line \in ApiLines
    /\ pc = "parse"
    /\ sudoku = EmptyGrid
    /\ empty_cells = <<>>
    /\ state = <<>>
    /\ result = NoResult
    /\ cli = NoCli

\* SolvedSudoku::try_from(sudoku): Ok, Err(()) or the panic of the expect.
TryFrom ==
    /\ pc = "parsed"
    /\ LET r == TryFromSudoku(sudoku)
       IN  /\ result' = IF r.panic THEN [tag |-> "try_from_panic", grid |-> EmptyGrid]
                        ELSE IF r.ok THEN [tag |-> "Ok", grid |-> r.values]
                        ELSE [tag |-> "Err", grid |-> EmptyGrid]
           /\ pc' = IF ~ r.panic /\ r.ok THEN "held" ELSE "done"
    /\ UNCHANGED <<cli, line, sudoku, empty_cells, state>>

\* IndexMut<Ix> for SolvedSudoku: solved[ix] = value.
SolvedIndexMut ==
    /\ pc = "held"
    /\ \E ix \in WritePositions, value \in WriteValues :
          result' = [result EXCEPT !.grid = IndexMut(result.grid, ix, value)]
    /\ UNCHANGED <<cli, line, pc, sudoku, empty_cells, state>>

\* From<SudokuValue> for SudokuCell: filled(value).
IntoCell(value) == value

\* From<SolvedSudoku> for Sudoku: every value becomes a filled cell.
FromSolved(s) == [y \in Coords |-> [x \in Coords |-> IntoCell(s[y][x])]]

\* Sudoku::from(solved).
IntoSudoku ==
    /\ pc = "held"
    /\ sudoku' = FromSolved(result.grid)
    /\ pc' = "done"
    /\ UNCHANGED <<cli, line, empty_cells, state, result>>

ApiNext ==
    \/ Parse
    \/ ParsePanic
    \/ TryFrom
    \/ SolvedIndexMut
    \/ IntoSudoku

ApiSpec == ApiInit /\ [][ApiNext]_vars

---------------------------------------------------------------------------
(* The command-line program of src/src/main.rs, which has a Sudoku type    *)
(* and a line parser of its own.                                           *)

\* u8::is_ascii_whitespace: tab, line feed, form feed, carriage return,
\* space.
Whitespace == { 9, 10, 12, 13, 32 }

\* The first whitespace byte of bytes at or after i, Len(bytes) + 1 when
\* there is none.
NextSplit(bytes, i) ==
    IF \E j \in i .. Len(bytes) : bytes[j] \in Whitespace
        THEN CHOOSE j \in i .. Len(bytes) :
                /\ bytes[j] \in Whitespace
                /\ \A k \in i .. (j - 1) : bytes[k] \notin Whitespace
        ELSE Len(bytes) + 1

\* slice::split(u8::is_ascii_whitespace) from byte i on: the piece up to
\* the next whitespace byte, then the pieces after it.
RECURSIVE SplitFrom(_, _)
SplitFrom(bytes, i) ==
    LET j == NextSplit(bytes, i)
    IN  IF j > Len(bytes) THEN << SubSeq(bytes, i, Len(bytes)) >>
        ELSE << SubSeq(bytes, i, j - 1) >> \o SplitFrom(bytes, j + 1)

IsNonEmpty(piece) == piece # <<>>

\* contents.split(u8::is_ascii_whitespace).filter(|s| !s.is_empty()).
Tokens(bytes) == SelectSeq(SplitFrom(bytes, 1), IsNonEmpty)

\* parse_sudoku_line: the length assertion, then sudoku[x][y] for byte
\* y * 9 + x, a digit 1..9 or else the initial SudokuValue(0).
ParseSudokuLine(l) ==
    [panic |-> Len(l) # LineLen,
     grid |-> IF Len(l) # LineLen THEN EmptyGrid
              ELSE [x \in Coords |-> [y \in Coords |->
                        LET b == l[y * N + x + 1]
                        IN  IF b \in (Zero + 1) .. (Zero + 9) THEN b - Zero ELSE 0]]]

\* Display for main.rs's SudokuValue.
CliDisplay(v) == IF v \in 1 .. 9 THEN Zero + v ELSE Dot

\* Debug for main.rs's Sudoku, non-alternate: vals[0][0], vals[1][0], ...
CliDebugFmt(vals) == [i \in 1 .. LineLen |-> CliDisplay(vals[(i - 1) % N][(i - 1) \div N])]

\* The argument vectors tried: none at all, no source, the three help
\* flags, standard input, a path, one argument too many.
CliArgs ==
    { <<>>, <<"prog">>, <<"prog", "-h">>, <<"prog", "--help">>, <<"prog", "help">>,
      <<"prog", "-">>, <<"prog", "puzzles.txt">>, <<"prog", "a", "b">> }

HelpFlags == { "-h", "--help", "help" }

\* debug_assert_eq! is compiled in or out.
Builds == { "debug", "release" }

\* The tokens the sources are made of: a full grid, a puzzle, a '0' in the
\* middle, 80 bytes, a leading 0xff.
CliTokenList ==
    << BaseLine, MakeLine(PatternList[3], {}), MakeLine({}, {<<40, 48>>}),
       SubSeq(BaseLine, 1, LineLen - 1), MakeLine({}, {<<0, 255>>}) >>

Separators == { <<10>>, <<13, 10>>, <<32, 9>> }

RECURSIVE Join(_, _)
Join(ts, sep) ==
    IF ts = <<>> THEN <<>>
    ELSE IF Len(ts) = 1 THEN ts[1]
    ELSE ts[1] \o sep \o Join(Tail(ts), sep)

\* What reading the source may return.
CliContents ==
    { Join([k \in 1 .. n |-> CliTokenList[ks[k]]], sep) \o end :
        <<n, sep, end>> \in (0 .. MaxTokens) \X Separators \X { <<>>, <<10>> },
        ks \in [1 .. MaxTokens -> 1 .. Len(CliTokenList)] }

CliInit ==
    /\ line = <<>>
    /\ pc = "args"
    /\ sudoku = EmptyGrid
    /\ empty_cells = <<>>
    /\ state = <<>>
    /\ result = NoResult
    /\ \E args \in CliArgs, build \in Builds :
          cli = [NoCli EXCEPT !.args = args, !.build = build]

Exit(code) ==
    /\ cli' = [cli EXCEPT !.exit = code]
    /\ pc' = "exited"
    /\ UNCHANGED <<line, sudoku, empty_cells, state, result>>

\* args.next() gives no program name.
CliNoProgram ==
    /\ pc = "args"
    /\ cli.args = <<>>
    /\ Exit(ExitFailure)

\* Not exactly one argument after the program name.
CliBadArgCount ==
    /\ pc = "args"
    /\ Len(cli.args) >= 1
    /\ Len(cli.args) # 2
    /\ Exit(ExitFailure)

\* -h, --help, help: the usage line.
CliHelp ==
    /\ pc = "args"
    /\ Len(cli.args) = 2
    /\ cli.args[2] \in HelpFlags
    /\ Exit(ExitSuccess)

\* Reading standard input or the file fails.
CliReadError ==
    /\ pc = "args"
    /\ Len(cli.args) = 2
    /\ cli.args[2] \notin HelpFlags
    /\ Exit(ExitFailure)

\* Reading standard input or the file gives the bytes; they are split.
CliRead ==
    /\ pc = "args"
    /\ Len(cli.args) = 2
    /\ cli.args[2] \notin HelpFlags
    /\ \E bytes \in CliContents :
          cli' = [cli EXCEPT !.contents = bytes, !.todo = Tokens(bytes)]
    /\ pc' = "parsing"
    /\ UNCHANGED <<line, sudoku, empty_cells, state, result>>

\* The closure of map panics on the next token: the length assertion of
\* parse_sudoku_line or, in a debug build, debug_assert_eq!.
TokenPanics(token, build) ==
    LET s == ParseSudokuLine(token)
    IN  s.panic \/ (build = "debug" /\ token # CliDebugFmt(s.grid))

\* The next token is parsed and collected.
CliParseLine ==
    /\ pc = "parsing"
    /\ cli.todo # <<>>
    /\ ~ TokenPanics(Head(cli.todo), cli.build)
    /\ cli' = [cli EXCEPT !.todo = Tail(cli.todo),
                          !.sudokus = Append(cli.sudokus, ParseSudokuLine(Head(cli.todo)).grid)]
    /\ UNCHANGED <<line, pc, sudoku, empty_cells, state, result>>

\* The next token makes main panic.
CliParsePanic ==
    /\ pc = "parsing"
    /\ cli.todo # <<>>
    /\ TokenPanics(Head(cli.todo), cli.build)
    /\ Exit(ExitPanic)

\* Every token is parsed: the timings are reported, ExitCode::SUCCESS.
CliDone ==
    /\ pc = "parsing"
    /\ cli.todo = <<>>
    /\ Exit(ExitSuccess)

CliNext ==
    \/ CliNoProgram
    \/ CliBadArgCount
    \/ CliHelp
    \/ CliReadError
    \/ CliRead
    \/ CliParseLine
    \/ CliParsePanic
    \/ CliDone

CliSpec == CliInit /\ [][CliNext]_vars

---------------------------------------------------------------------------
(* What the properties below read off the input line itself.               *)

Digits == (Zero + 1) .. (Zero + 9)

\* The line has 81 bytes, each '.' or a digit 1..9.
WellFormed(l) == Len(l) = LineLen /\ \A i \in 1 .. LineLen : l[i] = Dot \/ l[i] \in Digits

\* The cell byte i of a well-formed line stands for.
Given(l, i) == IF l[i] = Dot THEN 0 ELSE l[i] - Zero

Offsets == 1 .. LineLen

\* The cell of g at the offset of byte i: row (i - 1) / 9, column (i - 1) % 9.
At(g, i) == g[(i - 1) \div N][(i - 1) % N]

\* Two different offsets in one row, one column or one box.
SameUnit(i, j) ==
    LET ri == (i - 1) \div N
        ci == (i - 1) % N
        rj == (j - 1) \div N
        cj == (j - 1) % N
    IN  /\ i # j
        /\ \/ ri = rj
           \/ ci = cj
           \/ (ri \div BoxSide = rj \div BoxSide /\ ci \div BoxSide = cj \div BoxSide)

PeersOf == [i \in Offsets |-> { j \in Offsets : SameUnit(i, j) }]

\* No row, column or box of g holds a value twice.
DuplicateFree(g) ==
    \A i \in Offsets : At(g, i) # 0 => \A j \in PeersOf[i] : At(g, j) # At(g, i)

NoEmptyCell(g) == \A i \in Offsets : At(g, i) # 0

\* g keeps every given of the line.
KeepsGivens(g, l) == \A i \in Offsets : Given(l, i) # 0 => At(g, i) = Given(l, i)

InputGrid == [y \in Coords |-> [x \in Coords |-> Given(line, y * N + x + 1)]]

EmptyOffsets(l) == { i \in Offsets : l[i] = Dot }

EmptyIn(g) == { i \in Offsets : At(g, i) = 0 }

FirstEmpty(g) == CHOOSE e \in EmptyIn(g) : \A f \in EmptyIn(g) : e <= f

\* The values no cell in a unit of offset i holds.
FreeAt(g, i) == { v \in 1 .. 9 : \A j \in PeersOf[i] : At(g, j) # v }

\* g with value v at offset i.
Put(g, i, v) ==
    [y \in Coords |-> [x \in Coords |-> IF y * N + x + 1 = i THEN v ELSE g[y][x]]]

\* Every way to fill the empty cells of g so that no unit holds a value
\* twice, cell by cell from the first empty offset.
RECURSIVE Extensions(_)
Extensions(g) ==
    IF EmptyIn(g) = {} THEN {g}
    ELSE UNION { Extensions(Put(g, FirstEmpty(g), v)) : v \in FreeAt(g, FirstEmpty(g)) }

Completions(g) == IF DuplicateFree(g) THEN Extensions(g) ELSE {}

\* The line's givens hold a value twice in one row.
RowDuplicate(l) ==
    \E i \in Offsets : \E j \in Offsets :
        /\ i # j
        /\ (i - 1) \div N = (j - 1) \div N
        /\ l[i] # Dot
        /\ l[i] = l[j]

Returned == pc = "done" /\ result.tag \in {"Ok", "Err", "expect_panic"}

InSolver == pc \in {"main", "backtrack"} \/ Returned

---------------------------------------------------------------------------
(* Properties.                                                             *)

\* C1: whenever try_solve returns Ok(g), g has no empty cell, no row,
\* column or box of g holds a value twice, and every position the input
\* line fills holds the same value in g.
C1_OkIsValidSolution ==
    result.tag = "Ok" =>
        /\ NoEmptyCell(result.grid)
        /\ DuplicateFree(result.grid)
        /\ KeepsGivens(result.grid, line)

\* try_solve returned Ok for an input with at least fifteen empty cells.
C1_Witness == result.tag = "Ok" /\ Cardinality(EmptyOffsets(line)) >= 15

\* C2: try_solve returns the exhaustion error only when the input has no
\* duplicate-free completion; when it has one, try_solve returns Ok.
C2_ErrOnlyIfNoCompletion ==
    Returned =>
        /\ result.tag = "Err" => Completions(InputGrid) = {}
        /\ Completions(InputGrid) # {} => result.tag = "Ok"

\* try_solve returned the exhaustion error for givens that break no rule
\* and leave at least fifteen cells empty.
C2_Witness ==
    /\ result.tag = "Err"
    /\ DuplicateFree(InputGrid)
    /\ Cardinality(EmptyOffsets(line)) >= 15

\* C3: an input whose givens hold a value twice in one row ends with the
\* exhaustion error (and with nothing else, such as a panic).
C3_RowDuplicateEndsInErr ==
    (Returned /\ RowDuplicate(line)) => result.tag = "Err"

\* The trail's cursors, closed by 10 while the backtracking loop runs: the
\* place of the search in its tree.
SearchKey ==
    [k \in 1 .. (Len(state) + (IF pc = "backtrack" THEN 1 ELSE 0)) |->
        IF k <= Len(state) THEN state[k][2] ELSE 10]

\* s comes before t: s is a proper prefix of t, or is smaller at the first
\* place where they differ.
LexBefore(s, t) ==
    \E k \in 1 .. Len(t) :
        /\ k <= Len(s) + 1
        /\ \A j \in 1 .. (k - 1) : s[j] = t[j]
        /\ (k = Len(s) + 1 \/ s[k] < t[k])

SearchAdvances ==
    (pc \in {"main", "backtrack"} /\ pc' \in {"main", "backtrack"})
        => LexBefore(SearchKey, SearchKey')

C5_ErrPayloadIsInput ==
    result.tag = "Err" => \A i \in Offsets : At(result.grid, i) = Given(line, i)

\* The exhaustion error was returned after cells had been filled and
\* cleared again: the frontier, once emptied down to the trail, is whole.
C5_Witness ==
    /\ result.tag = "Err"
    /\ Len(empty_cells) >= 10
    /\ Cardinality(EmptyOffsets(line)) = Len(empty_cells)

\* C6: in every state of try_solve every given of the input still holds
\* its value.
C6_GivensUntouched == InSolver => KeepsGivens(sudoku, line)

\* The backtracking loop runs with at least three cells on the trail.
C6_Witness == pc = "backtrack" /\ Len(state) >= 3

\* t is a completion that the search order puts before g: at the last
\* offset where they differ t holds the smaller value.
ComesBefore(t, g) ==
    \E i \in Offsets :
        /\ At(t, i) < At(g, i)
        /\ \A j \in Offsets : j > i => At(t, j) = At(g, j)

\* C7: the grid returned as Ok is the first completion in the order of
\* the search: no completion of the input comes before it.
C7_FirstCompletion ==
    result.tag = "Ok" =>
        /\ result.grid \in Completions(InputGrid)
        /\ \A t \in Completions(InputGrid) : ~ ComesBefore(t, result.grid)

\* Ok was returned for an input with more than one completion.
C7_Witness ==
    /\ result.tag = "Ok"
    /\ Cardinality(Completions(InputGrid)) >= 2

\* The input line fills every cell and breaks no rule.
FullValidInput == WellFormed(line) /\ EmptyOffsets(line) = {} /\ DuplicateFree(InputGrid)

\* C9: for a full, valid input the only steps of try_solve are the start
\* and the return of Ok with the input grid: the frontier starts empty,
\* the trail stays empty, no cell is written, the backtracking loop is
\* never entered.
C9_FullValidReturnsAtOnce ==
    [][ (FullValidInput /\ pc \in {"parsed", "main"}) =>
            /\ sudoku' = sudoku
            /\ state' = <<>>
            /\ empty_cells' = <<>>
            /\ pc = "parsed" => pc' = "main"
            /\ pc = "main" =>
                   (pc' = "done" /\ result'.tag = "Ok" /\ result'.grid = InputGrid) ]_vars

\* Ok was returned for a line without a '.'.
C9_Witness == result.tag = "Ok" /\ EmptyOffsets(line) = {}

\* C10: encoding the grid parsed from a well-formed line gives the line.
C10_RoundTrip == (pc = "parsed" /\ WellFormed(line)) => DebugFmt(sudoku) = line

\* A line with empty cells and givens was parsed.
C10_Witness ==
    /\ pc = "parsed"
    /\ EmptyOffsets(line) # {}
    /\ \E i \in Offsets : line[i] \in Digits

\* C11: from_line panics for every line that is not 81 bytes long and for
\* every line with a byte other than '.' and '1'..'9' ('0' and the bytes
\* below it included); for every other line it returns the grid whose cell
\* at row r, column c is what byte r * 9 + c stands for.
C11_FromLineContract ==
    pc # "parse" =>
        /\ result.tag = "parse_panic" <=> ~ WellFormed(line)
        /\ pc = "parsed" => \A i \in Offsets : At(sudoku, i) = Given(line, i)

\* from_line panicked on an 81-byte line holding a '/', the byte below '0'.
C11_Witness ==
    /\ result.tag = "parse_panic"
    /\ Len(line) = LineLen
    /\ \E i \in Offsets : line[i] = Zero - 1

\* C12: a SolvedSudoku is never changed after its construction: whatever
\* the caller did with one that try_from returned, the Sudoku it converts
\* back to is filled and valid.
C12_SolvedSudokuStaysSolved ==
    (pc = "done" /\ result.tag = "Ok") => Filled(sudoku) /\ Valid(sudoku)

\* C13: SolvedSudoku::try_from(g) never panics, succeeds exactly when
\* g.solved(), and then holds at every position the value g holds there.
C13_TryFromContract ==
    [][(pc = "parsed" /\ pc' # "parsed") =>
          /\ result'.tag # "try_from_panic"
          /\ result'.tag = "Ok" <=> Solved(sudoku)
          /\ result'.tag = "Ok" => \A i \in Offsets : At(result'.grid, i) = At(sudoku, i)]_vars

\* C14: valid() is true exactly when no row, no column and no box holds
\* one value in two filled cells; empty cells do not count.
C14_ValidIffDuplicateFree ==
    pc # "parse" => (Valid(sudoku) <=> DuplicateFree(sudoku))

\* A grid in the search with empty cells and a value twice in a unit.
C14_Witness ==
    /\ pc = "main"
    /\ ~ NoEmptyCell(sudoku)
    /\ ~ Valid(sudoku)

\* The offset in the line of the position <<x, y>>.
OffsetOf(ix) == ix[2] * N + ix[1] + 1

\* The positions the three iterators visit, and the boxes as a partition
\* of the 81 offsets.
UnitPositions ==
    /\ \A i \in Coords :
          /\ Len(RowIx(i)) = 9 /\ Len(ColumnIx(i)) = 9 /\ Len(CellIx(i)) = 9
          /\ \A k \in 1 .. 9 :
                /\ RowIx(i)[k] = <<k - 1, i>>
                /\ ColumnIx(i)[k] = <<i, k - 1>>
                /\ CellIx(i)[k] = <<3 * (i % 3) + ((k - 1) % 3), 3 * (i \div 3) + ((k - 1) \div 3)>>
    /\ \A o \in Offsets :
          Cardinality({ <<i, k>> \in Coords \X (1 .. 9) : OffsetOf(CellIx(i)[k]) = o }) = 1

\* C15: row(i), column(i) and cell(i) each yield exactly nine cells: row(i)
\* the positions (0,i)..(8,i), column(i) the positions (i,0)..(i,8), cell(i)
\* the columns 3*(i%3)..+2 of the rows 3*(i/3)..+2 row by row; the nine
\* boxes do not overlap and cover the 81 positions.
C15_UnitIterators ==
    /\ UnitPositions
    /\ \A i \in Coords :
          /\ Len(Row(sudoku, i)) = 9 /\ Len(Column(sudoku, i)) = 9 /\ Len(Cell(sudoku, i)) = 9
          /\ \A k \in 1 .. 9 :
                /\ Row(sudoku, i)[k] = sudoku[i][k - 1]
                /\ Column(sudoku, i)[k] = sudoku[k - 1][i]
                /\ Cell(sudoku, i)[k] =
                      sudoku[3 * (i \div 3) + ((k - 1) \div 3)][3 * (i % 3) + ((k - 1) % 3)]

\* The search has filled a cell of the last box, whose row, column and box
\* all_affecting walked with the three iterators.
C15_Witness ==
    /\ pc = "main"
    /\ state # <<>>
    /\ CellFromIx(Last(state)[1]) = 8
    /\ Cell(sudoku, 8)[1] # 0

\* The values of the filled cells in the row, the column or the box of the
\* offset i, the cell at i included.
ValuesAround(g, i) == { At(g, j) : j \in PeersOf[i] \cup {i} } \ {0}

\* The positions try_solve hands to all_affecting in this run: those of the
\* frontier and of the trail.
SearchPositions ==
    { empty_cells[k] : k \in 1 .. Len(empty_cells) } \cup { state[k][1] : k \in 1 .. Len(state) }

\* C16: all_affecting(sudoku, (x, y)) is exactly the set of the values of
\* the filled cells in row y, in column x or in the box that holds (x, y).
C16_AllAffectingIsUnitValues ==
    \A ix \in SearchPositions :
        AllAffecting(sudoku, ix) = ValuesAround(sudoku, OffsetOf(ix))

\* The cell on top of the frontier sees all nine values around it.
C16_Witness ==
    /\ pc = "main"
    /\ empty_cells # <<>>
    /\ Cardinality(AllAffecting(sudoku, Last(empty_cells))) = 9

\* C17: indexed_values yields 81 pairs, the i-th with the position (column
\* (i-1) % 9, row (i-1) / 9) and the cell that indexing by it returns.
C17_IndexedValuesRowMajor ==
    pc # "parse" =>
        LET iv == IndexedValues(sudoku)
        IN  /\ Len(iv) = 81
            /\ \A i \in 1 .. 81 :
                  /\ iv[i][1] = <<(i - 1) % 9, (i - 1) \div 9>>
                  /\ iv[i][2] = Index(sudoku, iv[i][1])
                  /\ iv[i][2] = At(sudoku, i)

\* try_solve has just collected a frontier of at least 18 positions from
\* indexed_values.
C17_Witness ==
    /\ pc = "main"
    /\ state = <<>>
    /\ Len(empty_cells) >= 18
    /\ \E i \in 1 .. 81 : IndexedValues(sudoku)[i][2] # 0

\* Where a token of the bytes c starts: a byte that is no whitespace, at
\* the front or after whitespace.
TokenStarts(c) ==
    { a \in 1 .. Len(c) : c[a] \notin Whitespace /\ (a = 1 \/ c[a - 1] \in Whitespace) }

\* The token of c that starts at a.
TokenAt(c, a) ==
    LET b == CHOOSE e \in a .. Len(c) : e = Len(c) \/ c[e + 1] \in Whitespace
    IN  SubSeq(c, a, b)

\* Some whitespace-separated token of c is not 81 bytes of '.' and 1..9.
Malformed(c) == \E a \in TokenStarts(c) : ~ WellFormed(TokenAt(c, a))

\* C18: the command-line program exits with code 1 whenever a token of its
\* input is malformed, and with code 0 only for a help flag or when every
\* token is well-formed.
C18_ExitCodes ==
    pc = "exited" =>
        /\ Malformed(cli.contents) => cli.exit = 1
        /\ cli.exit = 0 =>
              \/ Len(cli.args) = 2 /\ cli.args[2] \in HelpFlags
              \/ Len(cli.args) = 2 /\ ~ Malformed(cli.contents)

\* C19: while a position stays on the trail the values written to it are
\* strictly increasing, so no (position, value) pair is tried twice before
\* the position goes back to the frontier.
C19_WritesIncrease ==
    [][\A k \in 1 .. Len(state) :
          (k <= Len(state') /\ state'[k][1] = state[k][1]) =>
              LET i == OffsetOf(state[k][1])
              IN  /\ At(sudoku', i) >= At(sudoku, i)
                  /\ (k = Len(state) /\ pc = "backtrack" /\ pc' = "main") =>
                        /\ At(sudoku, i) # 0
                        /\ At(sudoku', i) > At(sudoku, i)]_vars

\* The values above lo that no other cell in the row, the column or the
\* box of the offset i holds.
FreeAbove(g, i, lo) == { v \in (lo + 1) .. 9 : \A j \in PeersOf[i] : At(g, j) # v }

Least(S) == CHOOSE v \in S : \A w \in S : v <= w

\* The cell on top of the trail holds a value though a smaller one is free
\* for it: it has been refilled.
C19_Witness ==
    /\ pc = "main"
    /\ state # <<>>
    /\ LET i == OffsetOf(Last(state)[1])
       IN  \E v \in FreeAbove(sudoku, i, 0) : v < At(sudoku, i)

\* C20: a position popped from the frontier gets the least value of 1..9
\* that no cell of its row, column or box holds; a position popped from the
\* trail is cleared and gets the least value above its previous one that no
\* other cell of its units holds; a position is given up only when there is
\* no such value.
C20_AscendingFirstFit ==
    [][/\ (pc = "main" /\ empty_cells # <<>>) =>
              LET i == OffsetOf(Last(empty_cells))
                  free == FreeAbove(sudoku, i, 0)
              IN  IF free = {}
                      THEN pc' = "backtrack" /\ At(sudoku', i) = 0
                      ELSE pc' = "main" /\ At(sudoku', i) = Least(free)
       /\ (pc = "backtrack" /\ state # <<>>) =>
              LET i == OffsetOf(Last(state)[1])
                  free == FreeAbove(sudoku, i, At(sudoku, i))
              IN  IF free = {}
                      THEN /\ pc' = "backtrack"
                           /\ At(sudoku', i) = 0
                           /\ Len(state') = Len(state) - 1
                      ELSE pc' = "main" /\ At(sudoku', i) = Least(free)]_vars

\* The backtracking loop is about to refill a cell and has to pass over at
\* least one value that a peer holds.
C20_Witness ==
    /\ pc = "backtrack"
    /\ state # <<>>
    /\ LET i == OffsetOf(Last(state)[1])
           free == FreeAbove(sudoku, i, At(sudoku, i))
       IN  free # {} /\ Least(free) > At(sudoku, i) + 1

\* C21: whenever the main loop of try_solve finds the frontier empty, every
\* cell of the grid is filled, whatever the givens; the conversion to
\* SolvedSudoku then never meets an empty cell.
C21_EmptyFrontierMeansFilled ==
    /\ (pc = "main" /\ empty_cells = <<>>) => NoEmptyCell(sudoku)
    /\ result.tag # "try_from_panic"

\* The frontier ran empty after the search filled cells of a grid whose
\* givens hold a value twice.
C21_Witness ==
    /\ pc = "main"
    /\ empty_cells = <<>>
    /\ state # <<>>
    /\ ~ DuplicateFree(InputGrid)

\* C22: a refill in the backtracking loop hands control to the main loop,
\* whose next step pops the frontier; the trail is popped only in the
\* backtracking loop, which is entered or stayed in only by a step that
\* found no viable value for a position.
C22_RefillResumesMainLoop ==
    [][/\ (pc = "backtrack" /\ Len(state') = Len(state) /\ state # <<>>) =>
              pc' = "main" /\ empty_cells' # <<>>
       /\ (Len(state') < Len(state) \/ (Len(state') = Len(state) /\ state' # state)) =>
              pc = "backtrack"
       /\ pc' = "backtrack" =>
              \/ /\ pc = "main"
                 /\ empty_cells # <<>>
                 /\ FreeAbove(sudoku, OffsetOf(Last(empty_cells)), 0) = {}
              \/ /\ pc = "backtrack"
                 /\ state # <<>>
                 /\ LET i == OffsetOf(Last(state)[1])
                    IN  FreeAbove(sudoku, i, At(sudoku, i)) = {}]_vars

\* The main loop is about to pop the frontier right after a refill: the
\* cell on top of the trail holds more than its first free value and the
\* position on top of the frontier is still empty.
C22_Witness ==
    /\ pc = "main"
    /\ state # <<>>
    /\ empty_cells # <<>>
    /\ At(sudoku, OffsetOf(Last(state)[1])) > Least(FreeAbove(sudoku, OffsetOf(Last(state)[1]), 0))
    /\ Len(state) >= 2

\* The offsets of the trail's positions, bottom first.
TrailOffsets == [k \in 1 .. Len(state) |-> OffsetOf(state[k][1])]

\* The offsets of the frontier's positions, top first.
FrontierOffsets == [k \in 1 .. Len(empty_cells) |-> OffsetOf(empty_cells[Len(empty_cells) + 1 - k])]

\* A sequence of offsets is strictly descending.
Descending(s) == \A k \in 1 .. (Len(s) - 1) : s[k] > s[k + 1]

\* C23: at the top of the main loop the trail read bottom to top and then
\* the frontier read top to bottom are exactly the positions the input
\* leaves empty, each once, in reverse row-major order.
C23_StacksAreReverseScan ==
    pc = "main" =>
        LET order == TrailOffsets \o FrontierOffsets
        IN  /\ Descending(order)
            /\ { order[k] : k \in 1 .. Len(order) } = EmptyOffsets(line)

\* The main loop runs with at least two positions on each stack after a
\* position went back to the frontier.
C23_Witness ==
    /\ pc = "main"
    /\ Len(state) >= 2
    /\ Len(empty_cells) >= 2
    /\ Least(FreeAbove(sudoku, OffsetOf(Last(state)[1]), 0)) < At(sudoku, OffsetOf(Last(state)[1]))
    /\ Len(state) + Len(empty_cells) >= 15

\* C24: at the top of the main loop a position the input leaves empty holds
\* a value exactly when it has an entry on the trail, every position on the
\* frontier is empty, and the cursor of every trail entry is the value its
\* cell holds.
C24_TrailMatchesGrid ==
    pc = "main" =>
        /\ \A i \in EmptyOffsets(line) :
              At(sudoku, i) # 0 <=> \E k \in 1 .. Len(state) : OffsetOf(state[k][1]) = i
        /\ \A k \in 1 .. Len(empty_cells) : At(sudoku, OffsetOf(empty_cells[k])) = 0
        /\ \A k \in 1 .. Len(state) : state[k][2] = At(sudoku, OffsetOf(state[k][1]))

\* The main loop runs with three entries on the trail of which the top one
\* carries the cursor 9.
C24_Witness ==
    /\ pc = "main"
    /\ Len(state) >= 3
    /\ Last(state)[2] = 9
    /\ empty_cells # <<>>

\* C25: at the top of the main loop the value of every cell on the trail
\* differs from the value of every other cell of its row, column and box;
\* so when the givens are valid the grid is valid in every such state and
\* the expect on the conversion at the empty frontier never fails.
C25_TrailCellsDiffer ==
    /\ pc = "main" =>
          /\ \A k \in 1 .. Len(state) :
                LET i == OffsetOf(state[k][1])
                IN  \A j \in PeersOf[i] : At(sudoku, j) # At(sudoku, i)
          /\ Valid(InputGrid) => Valid(sudoku)
    /\ (result.tag = "expect_panic") => ~ Valid(InputGrid)

\* The frontier ran empty on valid givens with at least ten cells filled
\* by the search.
C25_Witness ==
    /\ pc = "main"
    /\ empty_cells = <<>>
    /\ Len(state) >= 10
    /\ Valid(InputGrid)

===========================================================================
